---- MODULE Spec2Model ----
(***************************************************************************)
(* Model of the single-flight job scheduler (backend/src/queue/            *)
(* InMemoryQueue.ts) and of the crawl entry point it drives                *)
(* (LightweightScraper.scanWebsite).                                       *)
(*                                                                         *)
(* JavaScript runs one callback to completion before the next one starts,  *)
(* so every action below is the code that runs between two suspension      *)
(* points (await / timer).  The job table is a Map, which iterates in      *)
(* insertion order; it is modelled as a sequence of job records.  The      *)
(* clock does not go backwards and is seen to advance when a timer fires,  *)
(* which happens at or after the timer's due time.                         *)
(***************************************************************************)
EXTENDS Integers, Sequences, FiniteSets, TLC

\* ---- bounds of the model ------------------------------------------------
MaxJobs == 2            \* number of start-scan requests over a run
NumUrls == 160          \* number of URLs of the crawled site
MaxFan == 6             \* largest number of internal links extracted from a page
MaxPeriod == 3          \* failing operations repeat with a period of at most this many URLs
MaxAnchors == 3         \* number of freely chosen anchors of a document
MaxRun == 11            \* number of further anchors, all to different pages of the site
MaxImages == 3          \* number of img elements of a document
MaxTitleLen == 62       \* longest title of a document, in characters
MaxH1Len == 52          \* longest H1 text of a document, in characters
MaxDescLen == 162       \* longest meta description of a document, in characters
MaxBaseLen == 112       \* longest H1 or title a description is built from
MaxNameLen == 102       \* longest file name of an image, in characters
MaxScans == 2           \* scans started from the form of the app
MaxPolls == 3           \* status polls issued by the app

\* ---- program constants --------------------------------------------------
MaxAttempts == 3        \* InMemoryQueue.ts:77   if (job.attempts < 3)
RetryDelayMs == 5000    \* InMemoryQueue.ts:80   this.delay(5000)
RetentionMs == 60 * 60 * 1000   \* InMemoryQueue.ts:71, 88, 108
MaxPages == 50          \* LightweightScraper.maxPages
MaxDepth == 3           \* scanPage: depth > 3
ExpandDepth == 2        \* scanPage: depth < 2
LinksFollowed == 5      \* scanPage: internalLinks.slice(0, 5)
FlushEvery == 3         \* scanPage: pagesProcessed % 3 === 0
LinkCap == 10           \* page.evaluate: .slice(0, 10)
ImageCap == 50          \* page.evaluate: images.slice(0, 50)
ContentWords == 50      \* page.evaluate: wordCount > 50


VARIABLES
    queue,        \* InMemoryQueue.queue: the jobs, in Map insertion order
    processing,   \* InMemoryQueue.processing
    lpc,          \* where processQueue is: "idle", "exec" (awaiting executeJob), "delay"
    cur,          \* id of the `job` local of processQueue (0 when no loop runs)
    delayDue,     \* time at which the pending retry delay may resolve
    timers,       \* pending setTimeout evictions: records [id, due]
    now,          \* Date.now(); time is observed to pass when a timer fires
    nextId,       \* next fresh job / session id
    spc,          \* where scanWebsite is (see the scraper actions)
    browser,      \* LightweightScraper.browser is non-null
    caught,       \* the catch block of scanWebsite ran in this invocation
    session,      \* session store: session[sid] is the record's status
    scanStore,    \* session store: scanStore[sid] is the record's scan_data
    links,        \* the site: links[u] is the internalLinks list extracted from page u
    fate,         \* fate[u] is the operation on page u that fails, if any
    visited,      \* the visitedUrls set of the running traversal
    stack,        \* the scanPage invocations in progress, outermost first
    scanData,     \* the scanData aggregate of the running crawl
    pagesProcessed, \* LightweightScraper.pagesProcessed
    lastRequest,  \* the last start-scan request answered, with its HTTP status
    page,         \* a rendered document, as page.evaluate finds it
    pageData,     \* what is recorded for that document: extraction and recommendations
    app           \* the browser app: its React state and the requests it has in flight

travVars == <<scanStore, links, fate, visited, stack, scanData, pagesProcessed,
              page, pageData, app>>
schedVars == <<queue, processing, lpc, cur, delayDue, timers>>
crawlVars == <<spc, browser, caught, session>>
vars == <<queue, processing, lpc, cur, delayDue, timers, now, nextId,
          spc, browser, caught, session,
          scanStore, links, fate, visited, stack, scanData, pagesProcessed,
          lastRequest, page, pageData, app>>

JobStatus == {"pending", "processing", "completed", "failed"}
SessionStatus == {"pending", "scanning", "completed", "failed"}
ScanPc == {"none", "updScanning", "launch", "scanPage", "updCompleted",
           "updFailed", "closing"}

\* ---- helpers over the job table ------------------------------------------
Ids(q) == {q[i].id : i \in 1..Len(q)}

IndexOf(q, id) == CHOOSE i \in 1..Len(q) : q[i].id = id

JobOf(q, id) == q[IndexOf(q, id)]

IsTerminal(st) == st \in {"completed", "failed"}

SetStatus(q, id, st) ==
    [i \in 1..Len(q) |-> IF q[i].id = id THEN [q[i] EXCEPT !.status = st] ELSE q[i]]

IncAttempts(q, id) ==
    [i \in 1..Len(q) |->
        IF q[i].id = id THEN [q[i] EXCEPT !.attempts = q[i].attempts + 1] ELSE q[i]]

Delete(q, id) == SelectSeq(q, LAMBDA j : j.id # id)

Max(a, b) == IF a >= b THEN a ELSE b

\* ---- getQueueStats -------------------------------------------------------
CountStatus(q, st) == Cardinality({i \in 1..Len(q) : q[i].status = st})

getQueueStats ==
    [total      |-> Len(queue),
     pending    |-> CountStatus(queue, "pending"),
     processing |-> CountStatus(queue, "processing"),
     completed  |-> CountStatus(queue, "completed"),
     failed     |-> CountStatus(queue, "failed")]

\* ---- selection of the next job (processQueue, lines 52-58) ----------------
\* variant: the filter is written as "not finished yet"
PendingJobs_NotCompleted(q) ==
    SelectSeq(q, LAMBDA j : j.status \notin {"processing", "completed"})

PendingJobs(q) == SelectSeq(q, LAMBDA j : j.status = "pending")

\* Array.prototype.sort is stable: an element goes after every element that
\* compares lower or equal and came before it.
\* variant: the comparator is written b - a
RECURSIVE Insert_Descending(_, _)
Insert_Descending(j, s) ==
    IF s = <<>> THEN <<j>>
    ELSE IF Head(s).createdAt >= j.createdAt
         THEN <<Head(s)>> \o Insert_Descending(j, Tail(s))
         ELSE <<j>> \o s

RECURSIVE Insert(_, _)
Insert(j, s) ==
    IF s = <<>> THEN <<j>>
    ELSE IF Head(s).createdAt <= j.createdAt
         THEN <<Head(s)>> \o Insert(j, Tail(s))
         ELSE <<j>> \o s

RECURSIVE SortByCreatedAt(_)
SortByCreatedAt(s) ==
    IF s = <<>> THEN <<>>
    ELSE Insert(s[Len(s)], SortByCreatedAt(SubSeq(s, 1, Len(s) - 1)))

SortedPending(q) == SortByCreatedAt(PendingJobs(q))

\* variant: the oldest job of the whole table is taken
PickJob_FromAll(q) == SortByCreatedAt(q)[1]

\* variant: the last element of the sorted array is taken
PickJob_Last(q) == SortedPending(q)[Len(SortedPending(q))]

\* line 58: const job = pendingJobs[0]
PickJob(q) == SortedPending(q)[1]

\* ---- the body of the while loop up to the first suspension ---------------
\* q is the job table as the code before the loop test left it.
\* variant: the loop is left without resetting the flag
LoopIteration_KeepsFlag(q) ==
    IF Len(q) = 0 \/ Len(SortedPending(q)) = 0
    THEN /\ queue' = q
         /\ processing' = TRUE
         /\ lpc' = "idle"
         /\ cur' = 0
         /\ spc' = "none"
         /\ caught' = FALSE
    ELSE /\ queue' = SetStatus(q, PickJob(q).id, "processing")
         /\ processing' = TRUE
         /\ lpc' = "exec"
         /\ cur' = PickJob(q).id
         /\ spc' = "updScanning"
         /\ caught' = FALSE

LoopIteration(q) ==
    IF Len(q) = 0 \/ Len(SortedPending(q)) = 0
    THEN \* loop ends: this.processing = false
         /\ queue' = q
         /\ processing' = FALSE
         /\ lpc' = "idle"
         /\ cur' = 0
         /\ spc' = "none"
         /\ caught' = FALSE
    ELSE \* job = pendingJobs[0]; job.status = 'processing'; executeJob(job)
         \* runs scanWebsite up to its first await (updateSession 'scanning')
         /\ queue' = SetStatus(q, PickJob(q).id, "processing")
         /\ processing' = TRUE
         /\ lpc' = "exec"
         /\ cur' = PickJob(q).id
         /\ spc' = "updScanning"
         /\ caught' = FALSE

\* ---- InMemoryQueue.add ---------------------------------------------------
NewJob(sid) ==
    [id |-> nextId, sessionId |-> sid, status |-> "pending",
     createdAt |-> now, attempts |-> 0]

\* variant: the loop is started without looking at the flag
add_NoFlagCheck(sid) == LoopIteration(Append(queue, NewJob(sid)))

add(sid) ==
    IF ~processing
    THEN LoopIteration(Append(queue, NewJob(sid)))
    ELSE /\ queue' = Append(queue, NewJob(sid))
         /\ UNCHANGED <<processing, lpc, cur, spc, caught>>

\* POST /api/scan/start from line 118 on: the session row is inserted with
\* status 'pending' and the job is added for it.
CreateScan ==
    /\ nextId <= MaxJobs
    /\ session' = Append(session, "pending")
    /\ add(nextId)
    /\ nextId' = nextId + 1
    /\ UNCHANGED <<delayDue, timers, now, browser, travVars>>

\* POST /api/scan/start with a valid URL; the request itself is not recorded
StartScan ==
    /\ CreateScan
    /\ UNCHANGED lastRequest

\* ---- POST /api/scan/start: validation ---------------------------------------
\* The URLs a request can carry, one of each class the validator tells apart,
\* with what the string is and what the library calls say about it:
\*   given     the value is a non-empty string (line 45)
\*   isURL     validator.isURL accepts the trimmed string (line 53)
\*   parses    new URL(...) does not throw (line 58)
\*   protocol  parsedUrl.protocol (line 61)
\*   blocked   the hostname contains an entry of BLOCKED_DOMAINS (lines 66-71)
\*   isIP      validator.isIP accepts the hostname (line 74)
UrlFacts(k) ==
    CASE k = "missing" ->
           [given |-> FALSE, isURL |-> FALSE, parses |-> FALSE, protocol |-> "",
            blocked |-> FALSE, isIP |-> FALSE]
      [] k = "malformed" ->
           [given |-> TRUE, isURL |-> FALSE, parses |-> FALSE, protocol |-> "",
            blocked |-> FALSE, isIP |-> FALSE]
      [] k = "noScheme" ->
           [given |-> TRUE, isURL |-> TRUE, parses |-> FALSE, protocol |-> "",
            blocked |-> FALSE, isIP |-> FALSE]
      [] k = "ftp" ->
           [given |-> TRUE, isURL |-> TRUE, parses |-> TRUE, protocol |-> "ftp:",
            blocked |-> FALSE, isIP |-> FALSE]
      [] k = "loopbackName" ->
           [given |-> TRUE, isURL |-> TRUE, parses |-> TRUE, protocol |-> "http:",
            blocked |-> TRUE, isIP |-> FALSE]
      [] k = "privateIp" ->
           [given |-> TRUE, isURL |-> TRUE, parses |-> TRUE, protocol |-> "http:",
            blocked |-> TRUE, isIP |-> TRUE]
      [] k = "publicIp" ->
           [given |-> TRUE, isURL |-> TRUE, parses |-> TRUE, protocol |-> "https:",
            blocked |-> FALSE, isIP |-> TRUE]
      [] OTHER ->
           [given |-> TRUE, isURL |-> TRUE, parses |-> TRUE, protocol |-> "https:",
            blocked |-> FALSE, isIP |-> FALSE]

UrlKinds ==
    {"missing", "malformed", "noScheme", "ftp", "loopbackName", "privateIp",
     "publicIp", "publicHttps"}

validateUrl_NoHostCheck(k) ==
    LET u == UrlFacts(k)
    IN  IF ~u.given THEN FALSE
        ELSE IF ~u.isURL THEN FALSE
        ELSE IF ~u.parses THEN FALSE
        ELSE IF u.protocol \notin {"http:", "https:"} THEN FALSE
        ELSE IF u.isIP THEN FALSE
        ELSE TRUE

\* InputValidator.validateUrl, the isValid field of its result
validateUrl(k) ==
    LET u == UrlFacts(k)
    IN  IF ~u.given THEN FALSE
        ELSE IF ~u.isURL THEN FALSE
        ELSE IF ~u.parses THEN FALSE
        ELSE IF u.protocol \notin {"http:", "https:"} THEN FALSE
        ELSE IF u.blocked THEN FALSE
        ELSE IF u.isIP THEN FALSE
        ELSE TRUE

\* the brandColors values a request can carry
ColorKinds == {"absent", "object", "array"}

\* InputValidator.validateBrandColors, the isValid field of its result
validateBrandColors(c) ==
    IF c = "absent" THEN TRUE
    ELSE IF c = "array" THEN FALSE
    ELSE TRUE

Answer(k, c, code) == [url |-> k, colors |-> c, status |-> code]

\* The whole handler (lines 102-166): a request that fails validation is
\* answered 400, one whose session row cannot be inserted 500; otherwise the
\* session and the job are created and the answer is 200.
PostScanStart(k, c, insertOk) ==
    IF ~validateUrl(k) \/ ~validateBrandColors(c)
    THEN /\ lastRequest' = Answer(k, c, 400)
         /\ UNCHANGED <<schedVars, now, nextId, crawlVars, travVars>>
    ELSE IF ~insertOk
    THEN /\ lastRequest' = Answer(k, c, 500)
         /\ UNCHANGED <<schedVars, now, nextId, crawlVars, travVars>>
    ELSE /\ CreateScan
         /\ lastRequest' = Answer(k, c, 200)

\* ---- processQueue after executeJob settled --------------------------------
\* Promise continuations run as microtasks: when the last await of
\* scanWebsite settles, the rest of scanWebsite, of executeJob and of
\* processQueue up to its next await run without any other callback between.
EvictionTimer(id) == [id |-> id, due |-> now + RetentionMs]

\* variant: every finished attempt is counted
Complete_CountsAttempt(q, id) == SetStatus(IncAttempts(q, id), id, "completed")

\* line 65
Complete(q, id) == SetStatus(q, id, "completed")

\* executeJob resolved: lines 65-71, then the next loop iteration
JobSucceeded ==
    /\ timers' = timers \cup {EvictionTimer(cur)}
    /\ LoopIteration(Complete(queue, cur))
    /\ UNCHANGED delayDue

\* variant: off by one in the retry test
RetryAllowed_OffByOne(attempts) == attempts <= MaxAttempts

\* line 77
RetryAllowed(attempts) == attempts < MaxAttempts

\* variant: the job is re-stamped when it is put back
Requeue_ResetsCreatedAt(q, id) ==
    [i \in 1..Len(q) |->
        IF q[i].id = id
        THEN [q[i] EXCEPT !.status = "pending", !.createdAt = now]
        ELSE q[i]]

\* line 78: the job object is kept, only its status changes
Requeue(q, id) == SetStatus(q, id, "pending")

\* executeJob rejected: lines 73-90: attempts++; retry after the delay, or
\* fail for good and go on with the next loop iteration
\* variant: the flag is dropped for the time of the retry delay
JobFailed_ReleasesFlag ==
    IF RetryAllowed(JobOf(queue, cur).attempts + 1)
    THEN /\ queue' = Requeue(IncAttempts(queue, cur), cur)
         /\ lpc' = "delay"
         /\ delayDue' = now + RetryDelayMs
         /\ spc' = "none"
         /\ caught' = FALSE
         /\ processing' = FALSE
         /\ UNCHANGED <<cur, timers>>
    ELSE /\ timers' = timers \cup {EvictionTimer(cur)}
         /\ LoopIteration(SetStatus(IncAttempts(queue, cur), cur, "failed"))
         /\ UNCHANGED delayDue

JobFailed ==
    IF RetryAllowed(JobOf(queue, cur).attempts + 1)
    THEN /\ queue' = Requeue(IncAttempts(queue, cur), cur)
         /\ lpc' = "delay"
         /\ delayDue' = now + RetryDelayMs
         /\ spc' = "none"
         /\ caught' = FALSE
         /\ UNCHANGED <<processing, cur, timers>>
    ELSE /\ timers' = timers \cup {EvictionTimer(cur)}
         /\ LoopIteration(SetStatus(IncAttempts(queue, cur), cur, "failed"))
         /\ UNCHANGED delayDue

\* ---- LightweightScraper.scanWebsite, one action per suspension point ------
\* updateSession swallows every error of the session store (lines 333-346):
\* a write either takes effect or is lost, and the caller continues.
updateSession(sid, st, ok) ==
    IF ok THEN [session EXCEPT ![sid] = st] ELSE session

CurSession == JobOf(queue, cur).sessionId

\* the finally block (lines 74-79): close the browser if the field is set;
\* otherwise scanWebsite returns and executeJob resolves
EnterFinally ==
    IF browser
    THEN /\ spc' = "closing"
         /\ UNCHANGED <<schedVars, caught>>
    ELSE JobSucceeded

\* line 15: await this.updateSession(sessionId, { status: 'scanning' })
UpdScanningDone(ok) ==
    /\ lpc = "exec" /\ spc = "updScanning"
    /\ session' = updateSession(CurSession, "scanning", ok)
    /\ spc' = "launch"
    /\ UNCHANGED <<schedVars, now, nextId, browser, caught, travVars, lastRequest>>

\* lines 18-33: this.browser = await puppeteer.launch(...); a rejected launch
\* leaves the field as it was and enters the catch block (lines 61-73).
LaunchDone(ok) ==
    /\ lpc = "exec" /\ spc = "launch"
    /\ IF ok
       THEN /\ browser' = TRUE
            /\ spc' = "scanPage"
            /\ UNCHANGED caught
       ELSE /\ caught' = TRUE
            /\ spc' = "updFailed"
            /\ UNCHANGED browser
    /\ UNCHANGED <<schedVars, now, nextId, session, travVars, lastRequest>>

\* line 47: await this.scanPage(url, 0, ...).  The traversal either returns
\* (per-page errors are recorded inside it) or an exception escapes it
\* (newPage() at line 100 and page.close() at line 229 are outside its try).
ScanPageDone(ok) ==
    /\ lpc = "exec" /\ spc = "scanPage"
    /\ IF ok
       THEN /\ spc' = "updCompleted"
            /\ UNCHANGED caught
       ELSE /\ caught' = TRUE
            /\ spc' = "updFailed"
    /\ UNCHANGED <<schedVars, now, nextId, browser, session, travVars, lastRequest>>

\* lines 54-57: the final write, then the finally block
UpdCompletedDone(ok) ==
    /\ lpc = "exec" /\ spc = "updCompleted"
    /\ session' = updateSession(CurSession, "completed", ok)
    /\ EnterFinally
    /\ UNCHANGED <<now, nextId, browser, travVars, lastRequest>>

\* lines 63-73: the failure write of the catch block, then the finally block
\* variant: the catch block goes on without writing the failure
UpdFailedDone_NoWrite(ok) ==
    /\ lpc = "exec" /\ spc = "updFailed"
    /\ UNCHANGED session
    /\ EnterFinally
    /\ UNCHANGED <<now, nextId, browser, travVars, lastRequest>>

UpdFailedDone(ok) ==
    /\ lpc = "exec" /\ spc = "updFailed"
    /\ session' = updateSession(CurSession, "failed", ok)
    /\ EnterFinally
    /\ UNCHANGED <<now, nextId, browser, travVars, lastRequest>>

\* lines 75-78: await this.browser.close(); this.browser = null, scanWebsite
\* returns and executeJob resolves.  If close() rejects, the field keeps its
\* value, scanWebsite rejects and so does executeJob.
CloseDone(ok) ==
    /\ lpc = "exec" /\ spc = "closing"
    /\ IF ok
       THEN /\ browser' = FALSE
            /\ JobSucceeded
       ELSE /\ UNCHANGED browser
            /\ JobFailed
    /\ UNCHANGED <<now, nextId, session, travVars, lastRequest>>

\* line 80 resolves: the timer fires no earlier than its due time, then the
\* next loop iteration runs
DelayDone ==
    /\ lpc = "delay"
    /\ now' = Max(now, delayDue)
    /\ LoopIteration(queue)
    /\ delayDue' = 0
    /\ UNCHANGED <<timers, nextId, browser, session, travVars, lastRequest>>

\* lines 69-71 and 86-88: the eviction callback, this.queue.delete(job.id);
\* like every timer it fires no earlier than its due time
EvictTimerFires(t) ==
    /\ t \in timers
    /\ now' = Max(now, t.due)
    /\ queue' = Delete(queue, t.id)
    /\ timers' = timers \ {t}
    /\ UNCHANGED <<processing, lpc, cur, delayDue, nextId, crawlVars, travVars, lastRequest>>

\* ---- InMemoryQueue.cleanup -----------------------------------------------
\* variant: the status test is left out
Stale_AnyStatus(j) == j.createdAt < now - RetentionMs

\* lines 111-112
Stale(j) == IsTerminal(j.status) /\ j.createdAt < now - RetentionMs

cleanup ==
    /\ queue' = SelectSeq(queue, LAMBDA j : ~Stale(j))
    /\ UNCHANGED <<processing, lpc, cur, delayDue, timers, now, nextId, crawlVars, travVars, lastRequest>>

\* ---- specification -------------------------------------------------------
\* ---- the crawled site and the scan aggregate --------------------------------
Urls == 1..NumUrls

SeedUrl == 1

Min(a, b) == IF a < b THEN a ELSE b

\* A site in which page u links to fan consecutive pages, starting at u itself
\* (first = 0, a self link) or at its successor (first = 1).
Ring(fan, first) ==
    [u \in Urls |-> [k \in 1..fan |-> ((u + k + first - 2) % NumUrls) + 1]]

\* A site in which every page links to fan pages of its own.
Tree(fan) ==
    [u \in Urls |->
        SelectSeq([k \in 1..fan |-> fan * (u - 1) + 1 + k],
                  LAMBDA v : v <= NumUrls)]

\* The extracted lists hold same-site URLs without duplicates (lines 149-171).
Sites ==
    {Tree(fan) : fan \in {1, LinksFollowed, MaxFan}}
       \cup {Ring(fan, first) : fan \in {2, MaxFan}, first \in {0, 1}}

\* What goes wrong with a page: nothing, newPage() rejects (line 100), an
\* operation inside the try block rejects (lines 106-182), page.close()
\* rejects (line 229), or both of the last two.  A crawl enters a URL at most
\* once, so one fate per URL covers every pattern of failing operations.
Fate == {"ok", "open", "visit", "close", "visitClose"}

FatesOver(kinds) ==
    UNION {{[u \in Urls |-> k[u % m]] : k \in [0..(m - 1) -> kinds]} :
              m \in 1..MaxPeriod}

Fates == FatesOver(Fate)

\* lines 35-41
EmptyAggregate ==
    [pages |-> <<>>, totalPages |-> 0, pagesProcessed |-> 0, pagesSkipped |-> 0,
     errors |-> <<>>, completedAt |-> FALSE]

\* a scan_data value of the session store; lastUpdate and error tell the
\* progress flush (line 206) and the failure record (line 66) apart
NoData == [data |-> EmptyAggregate, lastUpdate |-> FALSE, error |-> FALSE]

\* updateSession with a scan_data field: written or lost, as the status is
updateScanData(sid, sd, ok) ==
    IF ok THEN [scanStore EXCEPT ![sid] = sd] ELSE scanStore

\* ---- LightweightScraper.scanPage, one action per suspension point ----------
\* An invocation in progress: its URL and depth, where it is suspended, and
\* the links its for loop has still to iterate.
Frame(url, depth) == [url |-> url, depth |-> depth, pc |-> "newPage", rest |-> <<>>]

Top(stk) == stk[Len(stk)]

Pop(stk) == SubSeq(stk, 1, Len(stk) - 1)

SetTop(stk, f) == [stk EXCEPT ![Len(stk)] = f]

\* lines 90-97: the entry check
Enters(url, depth, vis, pp) ==
    ~(url \in vis \/ depth > MaxDepth \/ pp >= MaxPages)

\* lines 214-218: the for loop runs until a call of scanPage suspends; the
\* result is the rest of the list from the link of that call on
RECURSIVE NextChild(_, _, _, _)
NextChild(rest, depth, vis, pp) ==
    IF rest = <<>> THEN <<>>
    ELSE IF pp < MaxPages /\ Enters(Head(rest), depth + 1, vis, pp)
         THEN rest
         ELSE NextChild(Tail(rest), depth, vis, pp)

\* The invocation on top of stk goes on with its for loop over rest: it
\* suspends in the next call that enters a page (line 99 adds the URL to the
\* visited set, line 100 awaits newPage), or leaves the loop for the finally
\* block (line 229).
FollowLinks(stk, rest, vis, pp) ==
    LET f == Top(stk)
        r == NextChild(rest, f.depth, vis, pp)
    IN  IF r = <<>>
        THEN [stack |-> SetTop(stk, [f EXCEPT !.pc = "close", !.rest = <<>>]),
              visited |-> vis]
        ELSE [stack |-> Append(SetTop(stk, [f EXCEPT !.pc = "child", !.rest = Tail(r)]),
                               Frame(Head(r), f.depth + 1)),
              visited |-> vis \cup {Head(r)}]

ExpandsLinks_ToMaxDepth(f) == f.depth < MaxDepth /\ Len(links[f.url]) > 0

\* line 213
ExpandsLinks(f) == f.depth < ExpandDepth /\ Len(links[f.url]) > 0

LinksToFollow_All(url) == links[url]

\* line 214: internalLinks.slice(0, 5)
LinksToFollow(url) == SubSeq(links[url], 1, Min(LinksFollowed, Len(links[url])))

\* lines 213-219
Expand(stk, vis, pp) ==
    LET f == Top(stk)
    IN  IF ExpandsLinks(f)
        THEN FollowLinks(stk, LinksToFollow(f.url), vis, pp)
        ELSE [stack |-> SetTop(stk, [f EXCEPT !.pc = "close"]), visited |-> vis]

Catch_NoCount(sd, url) == [sd EXCEPT !.errors = Append(@, url)]

\* lines 221-227: the catch block of the invocation of page url
Catch(sd, url) ==
    [sd EXCEPT !.errors = Append(@, url), !.pagesSkipped = @ + 1]

\* variant: the page is pushed and the counter of the aggregate left behind
Record_KeepsCount(sd, url, pp) == [sd EXCEPT !.pages = Append(@, url)]

\* lines 188-199
Record(sd, url, pp) ==
    [sd EXCEPT !.pages = Append(@, url), !.pagesProcessed = pp + 1]

Finalize_PagesOnly(sd) ==
    [sd EXCEPT !.completedAt = TRUE, !.totalPages = Len(sd.pages)]

\* lines 50-51
Finalize(sd) ==
    [sd EXCEPT !.completedAt = TRUE, !.totalPages = Len(sd.pages) + sd.pagesSkipped]

\* An exception leaves the invocation on top of the stack.  In the caller it
\* arrives inside the try block (line 216) and runs the caller's catch and
\* finally; from the outermost invocation it arrives in scanWebsite's catch.
Raise ==
    LET stk == Pop(stack)
    IN  IF stk = <<>>
        THEN /\ stack' = <<>>
             /\ caught' = TRUE
             /\ spc' = "updFailed"
             /\ UNCHANGED scanData
        ELSE /\ stack' = SetTop(stk, [Top(stk) EXCEPT !.pc = "close", !.rest = <<>>])
             /\ scanData' = Catch(scanData, Top(stk).url)
             /\ UNCHANGED <<caught, spc>>

\* The invocation on top of the stack returns.  Its caller goes on with its
\* for loop; after the outermost one scanWebsite goes on at line 50.
Return ==
    LET stk == Pop(stack)
    IN  IF stk = <<>>
        THEN /\ stack' = <<>>
             /\ scanData' = Finalize(scanData)
             /\ spc' = "updCompleted"
             /\ UNCHANGED visited
        ELSE LET n == FollowLinks(stk, Top(stk).rest, visited, pagesProcessed)
             IN  /\ stack' = n.stack
                 /\ visited' = n.visited
                 /\ UNCHANGED <<scanData, spc>>

InScanPage(pc) ==
    /\ lpc = "exec" /\ spc = "scanPage"
    /\ stack # <<>>
    /\ Top(stack).pc = pc

\* lines 18-47 with the traversal spelt out: the aggregate and the counter are
\* reset and scanPage(url, 0, ..., new Set()) suspends at line 100
CrawlLaunchDone(ok) ==
    /\ lpc = "exec" /\ spc = "launch"
    /\ IF ok
       THEN /\ browser' = TRUE
            /\ spc' = "scanPage"
            /\ scanData' = EmptyAggregate
            /\ pagesProcessed' = 0
            /\ visited' = {SeedUrl}
            /\ stack' = <<Frame(SeedUrl, 0)>>
            /\ UNCHANGED caught
       ELSE /\ caught' = TRUE
            /\ spc' = "updFailed"
            /\ UNCHANGED <<browser, scanData, pagesProcessed, visited, stack>>
    /\ UNCHANGED <<schedVars, now, nextId, session, scanStore, links, fate, lastRequest, app, page, pageData>>

\* line 100: await this.browser.newPage(), outside the try block
NewPageDone ==
    /\ InScanPage("newPage")
    /\ IF fate[Top(stack).url] = "open"
       THEN Raise
       ELSE /\ stack' = SetTop(stack, [Top(stack) EXCEPT !.pc = "visit"])
            /\ UNCHANGED <<scanData, caught, spc>>
    /\ UNCHANGED <<schedVars, now, nextId, browser, session, scanStore, links,
                   fate, lastRequest, app, page, pageData, visited, pagesProcessed>>

VisitFailed_Rethrows ==
    /\ Raise
    /\ UNCHANGED <<pagesProcessed, visited>>

\* lines 221-230: a rejection inside the try block runs the catch block, then
\* the finally block awaits page.close()
VisitFailed ==
    /\ scanData' = Catch(scanData, Top(stack).url)
    /\ stack' = SetTop(stack, [Top(stack) EXCEPT !.pc = "close"])
    /\ UNCHANGED <<pagesProcessed, visited, spc, caught>>

FlushDue_OffByOne(pp) == pp % FlushEvery = 1

\* line 202
FlushDue(pp) == pp % FlushEvery = 0

\* lines 106-199: navigation and extraction, then the page is recorded and
\* counted (lines 188-199) and either the progress write is awaited or the
\* links are followed
VisitRecorded ==
    /\ InScanPage("visit")
    /\ LET f == Top(stack)
       IN  IF fate[f.url] \in {"visit", "visitClose"}
           THEN VisitFailed
           ELSE /\ scanData' = Record(scanData, f.url, pagesProcessed)
                /\ pagesProcessed' = pagesProcessed + 1
                /\ IF FlushDue(pagesProcessed + 1)
                   THEN /\ stack' = SetTop(stack, [f EXCEPT !.pc = "flush"])
                        /\ UNCHANGED visited
                   ELSE LET n == Expand(stack, visited, pagesProcessed + 1)
                        IN  /\ stack' = n.stack
                            /\ visited' = n.visited
                /\ UNCHANGED <<spc, caught>>
    /\ UNCHANGED <<schedVars, now, nextId, browser, session, scanStore, links, fate, lastRequest, app>>

\* a visit whose document is not looked at
VisitDone == VisitRecorded /\ UNCHANGED <<page, pageData>>

FlushDone_Throws(ok) ==
    /\ InScanPage("flush")
    /\ IF ok
       THEN /\ scanStore' = updateScanData(CurSession,
                               [data |-> scanData, lastUpdate |-> TRUE, error |-> FALSE], ok)
            /\ LET n == Expand(stack, visited, pagesProcessed)
               IN  /\ stack' = n.stack
                   /\ visited' = n.visited
            /\ UNCHANGED scanData
       ELSE /\ scanData' = Catch(scanData, Top(stack).url)
            /\ stack' = SetTop(stack, [Top(stack) EXCEPT !.pc = "close"])
            /\ UNCHANGED <<scanStore, visited>>
    /\ UNCHANGED <<schedVars, now, nextId, spc, browser, caught, session,
                   links, fate, lastRequest, app, page, pageData, pagesProcessed>>

\* lines 203-208: the progress write, then the links are followed
FlushDone(ok) ==
    /\ InScanPage("flush")
    /\ scanStore' = updateScanData(CurSession,
                       [data |-> scanData, lastUpdate |-> TRUE, error |-> FALSE], ok)
    /\ LET n == Expand(stack, visited, pagesProcessed)
       IN  /\ stack' = n.stack
           /\ visited' = n.visited
    /\ UNCHANGED <<schedVars, now, nextId, spc, browser, caught, session,
                   links, fate, lastRequest, app, page, pageData, scanData, pagesProcessed>>

\* line 229: await page.close() in the finally block
PageCloseDone ==
    /\ InScanPage("close")
    /\ IF fate[Top(stack).url] \in {"close", "visitClose"}
       THEN Raise /\ UNCHANGED visited
       ELSE Return /\ UNCHANGED caught
    /\ UNCHANGED <<schedVars, now, nextId, browser, session, scanStore, links,
                   fate, lastRequest, app, page, pageData, pagesProcessed>>

\* lines 54-57 with the payload: status and aggregate go in one write
CrawlUpdCompletedDone(ok) ==
    /\ lpc = "exec" /\ spc = "updCompleted"
    /\ session' = updateSession(CurSession, "completed", ok)
    /\ scanStore' = updateScanData(CurSession,
                       [data |-> scanData, lastUpdate |-> FALSE, error |-> FALSE], ok)
    /\ EnterFinally
    /\ UNCHANGED <<now, nextId, browser, links, fate, lastRequest, app, page, pageData, visited, stack, scanData,
                   pagesProcessed>>

CrawlUpdFailedDone_KeepsAggregate(ok) ==
    /\ lpc = "exec" /\ spc = "updFailed"
    /\ session' = updateSession(CurSession, "failed", ok)
    /\ scanStore' = updateScanData(CurSession,
                       [data |-> scanData, lastUpdate |-> FALSE, error |-> TRUE], ok)
    /\ EnterFinally
    /\ UNCHANGED <<now, nextId, browser, links, fate, lastRequest, app, page, pageData, visited, stack, scanData,
                   pagesProcessed>>

\* lines 63-73 with the payload: the failure record carries an empty aggregate
CrawlUpdFailedDone(ok) ==
    /\ lpc = "exec" /\ spc = "updFailed"
    /\ session' = updateSession(CurSession, "failed", ok)
    /\ scanStore' = updateScanData(CurSession,
                       [data |-> EmptyAggregate, lastUpdate |-> FALSE, error |-> TRUE], ok)
    /\ EnterFinally
    /\ UNCHANGED <<now, nextId, browser, links, fate, lastRequest, app, page, pageData, visited, stack, scanData,
                   pagesProcessed>>

\* ---- GET /api/scan/:id/results (server.ts lines 208-246) --------------------
\* The answer for session id s: 404 for an unknown id, 400 without scan data
\* unless the status is 'completed', else 200 with the stored scan_data.
getResults(s) ==
    IF s \notin 1..Len(session)
    THEN [code |-> 404, served |-> FALSE, scanData |-> NoData]
    ELSE IF session[s] # "completed"
    THEN [code |-> 400, served |-> FALSE, scanData |-> NoData]
    ELSE [code |-> 200, served |-> TRUE, scanData |-> scanStore[s]]

\* a single scan request
CrawlStart == nextId = 1 /\ StartScan

\* ---- one document: extraction and recommendations ---------------------------
\* Strings are sequences of characters, so that length, slice and
\* concatenation are what they are in the program.
Letters == <<"a", "b", "c", "d", "e">>

\* a text of n characters
Text(n, k) == [i \in 1..n |-> Letters[((i + k) % 5) + 1]]

\* String.prototype.slice(from, to) for 0 <= from <= to
Slice(str, from, to) == SubSeq(str, from + 1, Min(to, Len(str)))

\* String.prototype.startsWith
StartsWith(str, prefix) ==
    /\ Len(prefix) <= Len(str)
    /\ SubSeq(str, 1, Len(prefix)) = prefix

\* String.prototype.trim
RECURSIVE TrimLeft(_)
TrimLeft(str) ==
    IF str # <<>> /\ Head(str) = " " THEN TrimLeft(Tail(str)) ELSE str

RECURSIVE TrimRight(_)
TrimRight(str) ==
    IF str # <<>> /\ str[Len(str)] = " "
    THEN TrimRight(SubSeq(str, 1, Len(str) - 1))
    ELSE str

Trim(str) == TrimRight(TrimLeft(str))

Ellipsis ==
    <<".", ".", ".">>

\* line 259
BrandSuffix ==
    <<" ", "|", " ", "Y", "o", "u", "r", " ", "B", "r", "a", "n", "d">>

\* line 261
UntitledTitle ==
    <<"U", "n", "t", "i", "t", "l", "e", "d", " ", "P", "a", "g", "e", " ",
      "|", " ", "Y", "o", "u", "r", " ", "B", "r", "a", "n", "d">>

\* line 273
GenericBase ==
    <<"L", "e", "a", "r", "n", " ", "m", "o", "r", "e", " ", "a", "b", "o",
      "u", "t", " ", "t", "h", "i", "s", " ", "p", "a", "g", "e">>

\* line 274
Filler ==
    <<".", " ", "D", "i", "s", "c", "o", "v", "e", "r", " ", "c", "o", "m",
      "p", "r", "e", "h", "e", "n", "s", "i", "v", "e", " ", "i", "n", "f",
      "o", "r", "m", "a", "t", "i", "o", "n", " ", "a", "n", "d", " ", "i",
      "n", "s", "i", "g", "h", "t", "s", ".">>

\* an optional string argument (h1[0] of a page without an H1 is undefined)
Undefined == [defined |-> FALSE, val |-> <<>>]

Defined(str) == [defined |-> TRUE, val |-> str]

First(seqs) == IF Len(seqs) = 0 THEN Undefined ELSE Defined(seqs[1])

\* a URL is the string of its origin followed by its path
Href(u) == u.origin \o u.path

\* lines 150-171: the hrefs that resolve to a URL starting with the current
\* origin, in document order
RECURSIVE InternalOf(_, _)
InternalOf(anchors, currentOrigin) ==
    IF anchors = <<>> THEN <<>>
    ELSE LET a == Head(anchors)
             rest == InternalOf(Tail(anchors), currentOrigin)
         IN  IF a.kind = "url" /\ StartsWith(Href(a.url), currentOrigin)
             THEN <<a.url>> \o rest
             ELSE rest

\* line 170: keep the first occurrence of every URL string
RECURSIVE Dedup(_, _)
Dedup(urls, seen) ==
    IF urls = <<>> THEN <<>>
    ELSE IF Href(Head(urls)) \in seen
         THEN Dedup(Tail(urls), seen)
         ELSE <<Head(urls)>> \o Dedup(Tail(urls), seen \cup {Href(Head(urls))})

\* lines 150-171
ExtractLinks(pg) ==
    LET all == Dedup(InternalOf(pg.anchors, pg.origin), {})
    IN  SubSeq(all, 1, Min(LinkCap, Len(all)))

\* lines 135: the trimmed, non-empty texts of the h1 elements
ExtractHeadings(hs) ==
    SelectSeq([i \in 1..Len(hs) |-> Trim(hs[i])], LAMBDA h : h # <<>>)

\* lines 140-143 and 177
ExtractImages(imgs) ==
    LET kept == SelectSeq(imgs, LAMBDA img :
                    img.src # <<>> /\ ~StartsWith(img.src, <<"d", "a", "t", "a", ":">>))
    IN  [i \in 1..Min(ImageCap, Len(kept)) |->
            [src |-> kept[i].src, currentAlt |-> Trim(kept[i].alt)]]

\* lines 130-182: page.evaluate
ExtractPageData(pg) ==
    [title |-> Trim(pg.title),
     metaDescription |-> Trim(pg.metaDescription),
     headings |-> [h1 |-> ExtractHeadings(pg.h1)],
     images |-> ExtractImages(pg.images),
     wordCount |-> pg.wordCount,
     hasContent |-> pg.wordCount > ContentWords,
     internalLinks |-> ExtractLinks(pg)]

optimizeTitle_CutsAt60(current, h1) ==
    IF current = <<>> \/ Len(current) < 30
    THEN IF h1.defined /\ Len(h1.val) > 0
         THEN IF Len(h1.val) > 50
              THEN Slice(h1.val, 0, 50) \o Ellipsis
              ELSE h1.val \o BrandSuffix
         ELSE UntitledTitle
    ELSE IF Len(current) > 60
         THEN Slice(current, 0, 60) \o Ellipsis
         ELSE current

\* lines 256-270
optimizeTitle(current, h1) ==
    IF current = <<>> \/ Len(current) < 30
    THEN IF h1.defined /\ Len(h1.val) > 0
         THEN IF Len(h1.val) > 50
              THEN Slice(h1.val, 0, 50) \o Ellipsis
              ELSE h1.val \o BrandSuffix
         ELSE UntitledTitle
    ELSE IF Len(current) > 60
         THEN Slice(current, 0, 57) \o Ellipsis
         ELSE current

\* line 273: h1 || title || 'Learn more about this page'
BaseText(title, h1) ==
    IF h1.defined /\ h1.val # <<>> THEN h1.val
    ELSE IF title # <<>> THEN title
    ELSE GenericBase

optimizeDescription_NoCut(current, title, h1) ==
    IF current = <<>> \/ Len(current) < 120
    THEN BaseText(title, h1) \o Filler
    ELSE IF Len(current) > 160
         THEN Slice(current, 0, 157) \o Ellipsis
         ELSE current

\* lines 271-283
optimizeDescription(current, title, h1) ==
    IF current = <<>> \/ Len(current) < 120
    THEN LET description == BaseText(title, h1) \o Filler
         IN  IF Len(description) > 160
             THEN Slice(description, 0, 157) \o Ellipsis
             ELSE description
    ELSE IF Len(current) > 160
         THEN Slice(current, 0, 157) \o Ellipsis
         ELSE current

\* lines 309-312
imagesWithoutAlt(pd) ==
    Len(SelectSeq(pd.images, LAMBDA img : img.currentAlt = <<>>))

\* lines 286-312
Score(pd) ==
    (IF pd.title = <<>> \/ Len(pd.title) < 30 \/ Len(pd.title) > 60 THEN 2 ELSE 0)
    + (IF pd.metaDescription = <<>> \/ Len(pd.metaDescription) < 120
          \/ Len(pd.metaDescription) > 160 THEN 2 ELSE 0)
    + (IF ~pd.hasContent THEN 3 ELSE 0)
    + (IF Len(pd.headings.h1) = 0 THEN 1 ELSE 0)
    + (IF imagesWithoutAlt(pd) > 0 THEN Min(imagesWithoutAlt(pd), 2) ELSE 0)

calculatePriority_HighAbove5(pd) ==
    IF Score(pd) > 5 THEN "high"
    ELSE IF Score(pd) >= 2 THEN "medium"
    ELSE "low"

\* lines 285-317
calculatePriority(pd) ==
    IF Score(pd) >= 5 THEN "high"
    ELSE IF Score(pd) >= 2 THEN "medium"
    ELSE "low"

generateRecommendations_ByProgress(pd) ==
    [title |->
        IF Len(pd.title) < 30 \/ Len(pd.title) > 60
        THEN optimizeTitle(pd.title, First(pd.headings.h1))
        ELSE pd.title,
     metaDescription |->
        IF Len(pd.metaDescription) < 120 \/ Len(pd.metaDescription) > 160
        THEN optimizeDescription(pd.metaDescription, pd.title, First(pd.headings.h1))
        ELSE pd.metaDescription,
     priority |-> IF pagesProcessed >= FlushEvery THEN "low" ELSE calculatePriority(pd)]

\* lines 233-254
generateRecommendations(pd) ==
    [title |->
        IF Len(pd.title) < 30 \/ Len(pd.title) > 60
        THEN optimizeTitle(pd.title, First(pd.headings.h1))
        ELSE pd.title,
     metaDescription |->
        IF Len(pd.metaDescription) < 120 \/ Len(pd.metaDescription) > 160
        THEN optimizeDescription(pd.metaDescription, pd.title, First(pd.headings.h1))
        ELSE pd.metaDescription,
     priority |-> calculatePriority(pd)]

\* line 322: src.split('/').pop()
AfterLastSlash(str) ==
    LET slashes == {i \in 1..Len(str) : str[i] = "/"}
        last == IF slashes = {} THEN 0
                ELSE CHOOSE i \in slashes : \A j \in slashes : j <= i
    IN  SubSeq(str, last + 1, Len(str))

\* line 322: split('.')[0]
BeforeFirstDot(str) ==
    LET dots == {i \in 1..Len(str) : str[i] = "."}
        first == IF dots = {} THEN Len(str) + 1
                 ELSE CHOOSE i \in dots : \A j \in dots : i <= j
    IN  SubSeq(str, 1, first - 1)

\* line 323: replace(/[-_]/g, ' ').toLowerCase()
LowerSpaced(str) ==
    [i \in 1..Len(str) |->
        CASE str[i] \in {"-", "_"} -> " "
          [] str[i] = "A" -> "a"
          [] str[i] = "B" -> "b"
          [] OTHER -> str[i]]

generateAltText_NoSlice(src, pd) ==
    LET name == BeforeFirstDot(AfterLastSlash(src))
        filename == IF name = <<>> THEN <<"i", "m", "a", "g", "e">> ELSE name
        pageTitle == IF pd.title = <<>> THEN <<"p", "a", "g", "e">> ELSE pd.title
    IN  LowerSpaced(filename) \o <<" ", "o", "n", " ">> \o pageTitle

\* lines 319-331; the catch of line 328 is not reachable: src and title are
\* strings, and none of the string operations throws
generateAltText(src, pd) ==
    LET name == BeforeFirstDot(AfterLastSlash(src))
        filename == IF name = <<>> THEN <<"i", "m", "a", "g", "e">> ELSE name
        pageTitle == IF pd.title = <<>> THEN <<"p", "a", "g", "e">> ELSE pd.title
    IN  Slice(LowerSpaced(filename) \o <<" ", "o", "n", " ">> \o pageTitle, 0, 100)

\* lines 192-195: the images of the recorded page
RecordImages(pd) ==
    [i \in 1..Len(pd.images) |->
        [src |-> pd.images[i].src,
         currentAlt |-> pd.images[i].currentAlt,
         recommendedAlt |-> generateAltText(pd.images[i].src, pd)]]

NotAnalysed == [done |-> FALSE]

\* a document without anything in it
BlankPage ==
    [origin |-> <<>>, anchors |-> <<>>, title |-> <<>>, metaDescription |-> <<>>,
     h1 |-> <<>>, images |-> <<>>, wordCount |-> 0]

\* lines 130-196: the document is evaluated and its recommendations generated
Analyse ==
    /\ ~pageData.done
    /\ pageData' = [done |-> TRUE,
                    data |-> ExtractPageData(page),
                    recommendations |-> generateRecommendations(ExtractPageData(page)),
                    images |-> RecordImages(ExtractPageData(page))]
    /\ UNCHANGED <<schedVars, now, nextId, crawlVars, scanStore, links, fate,
                   visited, stack, scanData, pagesProcessed, lastRequest, app, page>>

\* ---- the frontend (App.tsx) -----------------------------------------------
\* lines 11-16: the React state after the first render; '' and null are 0 and
\* "none".  starts and polls are the requests that have not been answered yet:
\* a poll is the callback of one interval tick, with the sessionId of its
\* closure, waiting for the status (line 26) or for the results (line 31).
\* scanData is shown by the id of the session whose results it holds.
InitialApp ==
    [appState |-> "form", sessionId |-> 0, scanStatus |-> "none", scanData |-> 0,
     error |-> "none", starts |-> 0, started |-> 0, polls |-> {}, polled |-> 0]

\* what an action of the frontend leaves alone
BackendUnchanged ==
    UNCHANGED <<schedVars, now, nextId, crawlVars, scanStore, links, fate, visited,
                stack, scanData, pagesProcessed, lastRequest, page, pageData>>

\* lines 53-61: the form is submitted (it is never disabled: isLoading is
\* false, line 129) and the request is sent
handleStartScan ==
    /\ app.appState = "form"
    /\ app.started < MaxScans
    /\ app' = [app EXCEPT !.error = "none", !.starts = @ + 1, !.started = @ + 1]
    /\ BackendUnchanged

\* lines 63-69: the start request is answered with a new session id, or fails
StartSettled(ok) ==
    /\ app.starts > 0
    /\ app' = IF ok
              THEN [app EXCEPT !.starts = @ - 1,
                               !.sessionId = app.started - app.starts + 1,
                               !.appState = "scanning"]
              ELSE [app EXCEPT !.starts = @ - 1, !.error = "startFailed",
                               !.appState = "error"]
    /\ BackendUnchanged

\* lines 23-26: the interval of the effect exists while the app is scanning a
\* session; a tick sends a status request for the sessionId of the effect
PollTick ==
    /\ app.appState = "scanning" /\ app.sessionId # 0
    /\ app.polled < MaxPolls
    /\ app' = [app EXCEPT !.polled = @ + 1,
                          !.polls = @ \cup {[id |-> app.polled + 1,
                                             sid |-> app.sessionId,
                                             phase |-> "status"]}]
    /\ BackendUnchanged

\* lines 26-42: the status request of poll p is answered with a status, or
\* fails (answer "throw")
StatusSettled(p, answer) ==
    /\ p \in app.polls /\ p.phase = "status"
    /\ app' =
          CASE answer = "throw" ->
                  [app EXCEPT !.polls = @ \ {p}, !.error = "pollFailed",
                              !.appState = "error"]
            [] answer = "completed" ->
                  [app EXCEPT !.polls = (@ \ {p}) \cup {[p EXCEPT !.phase = "results"]},
                              !.scanStatus = answer]
            [] answer = "failed" ->
                  [app EXCEPT !.polls = @ \ {p}, !.scanStatus = answer,
                              !.error = "scanFailed", !.appState = "error"]
            [] OTHER ->
                  [app EXCEPT !.polls = @ \ {p}, !.scanStatus = answer]
    /\ BackendUnchanged

\* lines 31-33 and 38-41: the results request of poll p is answered, or fails
ResultsSettled(p, ok) ==
    /\ p \in app.polls /\ p.phase = "results"
    /\ app' = IF ok
              THEN [app EXCEPT !.polls = @ \ {p}, !.scanData = p.sid,
                               !.appState = "results"]
              ELSE [app EXCEPT !.polls = @ \ {p}, !.error = "pollFailed",
                               !.appState = "error"]
    /\ BackendUnchanged

\* lines 89-97: 'Start New Scan' of the results view, 'Try Again' of the
\* error view
handleStartNewScan ==
    /\ app.appState \in {"results", "error"}
    /\ app' = [app EXCEPT !.appState = "form", !.sessionId = 0,
                          !.scanStatus = "none", !.scanData = 0, !.error = "none"]
    /\ BackendUnchanged

AppNext ==
    \/ handleStartScan
    \/ \E ok \in BOOLEAN : StartSettled(ok)
    \/ PollTick
    \/ \E p \in app.polls :
          \E answer \in {"pending", "scanning", "completed", "failed", "throw"} :
             StatusSettled(p, answer)
    \/ \E p \in app.polls : \E ok \in BOOLEAN : ResultsSettled(p, ok)
    \/ handleStartNewScan

SchedInit ==
    /\ queue = <<>>
    /\ processing = FALSE
    /\ lpc = "idle"
    /\ cur = 0
    /\ delayDue = 0
    /\ timers = {}
    /\ now = 0
    /\ nextId = 1
    /\ spc = "none"
    /\ browser = FALSE
    /\ caught = FALSE
    /\ session = <<>>
    /\ scanStore = [s \in 1..MaxJobs |-> NoData]
    /\ lastRequest = [url |-> "none", colors |-> "none", status |-> 0]
    /\ pageData = NotAnalysed
    /\ app = InitialApp
    /\ visited = {}
    /\ stack = <<>>
    /\ scanData = EmptyAggregate
    /\ pagesProcessed = 0

\* the scheduler is studied with the traversal summarised by ScanPageDone,
\* which consults no site
Init ==
    /\ SchedInit
    /\ links = <<>>
    /\ fate = <<>>
    /\ page = BlankPage

\* the crawl of one site, with the failing operations of its pages
CrawlInit ==
    /\ SchedInit
    /\ links \in Sites
    /\ fate \in Fates
    /\ page = BlankPage

Next ==
    \/ StartScan
    \/ \E ok \in BOOLEAN : UpdScanningDone(ok)
    \/ \E ok \in BOOLEAN : LaunchDone(ok)
    \/ \E ok \in BOOLEAN : ScanPageDone(ok)
    \/ \E ok \in BOOLEAN : UpdCompletedDone(ok)
    \/ \E ok \in BOOLEAN : UpdFailedDone(ok)
    \/ \E ok \in BOOLEAN : CloseDone(ok)
    \/ DelayDone
    \/ \E t \in timers : EvictTimerFires(t)
    \/ cleanup

Spec == Init /\ [][Next]_vars

\* The processing loop is one sequential activity: whenever one of its steps
\* can run (a promise settled, the retry timer due) the event loop runs it.
LoopStep ==
    \/ \E ok \in BOOLEAN : UpdScanningDone(ok)
    \/ \E ok \in BOOLEAN : LaunchDone(ok)
    \/ \E ok \in BOOLEAN : ScanPageDone(ok)
    \/ \E ok \in BOOLEAN : UpdCompletedDone(ok)
    \/ \E ok \in BOOLEAN : UpdFailedDone(ok)
    \/ \E ok \in BOOLEAN : CloseDone(ok)
    \/ DelayDone

LiveSpec == Spec /\ WF_vars(LoopStep)

\* The same program with a session store whose writes all succeed.
NextStoreOk ==
    \/ StartScan
    \/ UpdScanningDone(TRUE)
    \/ \E ok \in BOOLEAN : LaunchDone(ok)
    \/ \E ok \in BOOLEAN : ScanPageDone(ok)
    \/ UpdCompletedDone(TRUE)
    \/ UpdFailedDone(TRUE)
    \/ \E ok \in BOOLEAN : CloseDone(ok)
    \/ DelayDone
    \/ \E t \in timers : EvictTimerFires(t)
    \/ cleanup

SpecStoreOk == Init /\ [][NextStoreOk]_vars

LoopStepStoreOk ==
    \/ UpdScanningDone(TRUE)
    \/ \E ok \in BOOLEAN : LaunchDone(ok)
    \/ \E ok \in BOOLEAN : ScanPageDone(ok)
    \/ UpdCompletedDone(TRUE)
    \/ UpdFailedDone(TRUE)
    \/ \E ok \in BOOLEAN : CloseDone(ok)
    \/ DelayDone

\* Session writes never feed back into the scheduler, so its progress is
\* studied with the reliable store, which keeps the state graph small.
LiveSpecStoreOk == SpecStoreOk /\ WF_vars(LoopStepStoreOk)

TypeOK ==
    /\ \A i \in 1..Len(queue) :
          /\ queue[i].id \in 1..MaxJobs
          /\ queue[i].sessionId \in 1..Len(session)
          /\ queue[i].status \in JobStatus
          /\ queue[i].createdAt \in Nat
          /\ queue[i].attempts \in Nat
    /\ processing \in BOOLEAN
    /\ lpc \in {"idle", "exec", "delay"}
    /\ cur \in 0..MaxJobs
    /\ spc \in ScanPc
    /\ browser \in BOOLEAN
    /\ caught \in BOOLEAN
    /\ \A s \in 1..Len(session) : session[s] \in SessionStatus
    /\ (lpc = "exec") <=> (spc # "none")
    /\ processing <=> (lpc # "idle")
    /\ (lpc # "idle") => cur \in Ids(queue)

CrawlNext ==
    \/ CrawlStart
    \/ \E ok \in BOOLEAN : UpdScanningDone(ok)
    \/ \E ok \in BOOLEAN : CrawlLaunchDone(ok)
    \/ NewPageDone
    \/ VisitDone
    \/ \E ok \in BOOLEAN : FlushDone(ok)
    \/ PageCloseDone
    \/ \E ok \in BOOLEAN : CrawlUpdCompletedDone(ok)
    \/ \E ok \in BOOLEAN : CrawlUpdFailedDone(ok)
    \/ \E ok \in BOOLEAN : CloseDone(ok)
    \/ DelayDone

CrawlSpec == CrawlInit /\ [][CrawlNext]_vars

\* ---- documents to analyse ------------------------------------------------------
\* URLs are written in pieces (origin pieces, then path pieces); two URL
\* strings are equal, or one a prefix of the other, exactly as their pieces are.
SiteOrigin == <<"https://site.com">>

\* other origins: a host that continues the site's host name, the site's host
\* on another port, an unrelated host
LookalikeOrigin == <<"https://site.com", ".evil.org">>

PortOrigin == <<"https://site.com", ":8080">>

OtherOrigin == <<"https://other.org">>

Url(origin, path) == [origin |-> origin, path |-> path]

NoUrl == Url(<<>>, <<>>)

\* what an a[href] element can carry: an empty attribute, a value new URL()
\* rejects, or a value that resolves to a URL (lines 153-166)
HrefChoices ==
    {[kind |-> "empty", url |-> NoUrl], [kind |-> "invalid", url |-> NoUrl]}
       \cup {[kind |-> "url", url |-> Url(o, q)] :
                o \in {SiteOrigin, LookalikeOrigin, PortOrigin, OtherOrigin},
                q \in {<<"/p1">>, <<"/p2">>}}

\* n anchors to n different pages of the site
Run(n) ==
    [i \in 1..n |-> [kind |-> "url", url |-> Url(SiteOrigin, [j \in 1..i |-> "/q"])]]

AnchorLists ==
    UNION {{a \o r : a \in [1..n -> HrefChoices], r \in {<<>>, Run(MaxRun)}} :
              n \in 0..MaxAnchors}

LinkInit ==
    /\ SchedInit
    /\ links = <<>>
    /\ fate = <<>>
    /\ page \in {[BlankPage EXCEPT !.origin = SiteOrigin, !.anchors = a] :
                    a \in AnchorLists}

PageNext == Analyse

LinkSpec == LinkInit /\ [][PageNext]_vars

\* img elements: with an alt text, without one, with a blank one, and one
\* whose src is a data: URL (dropped at line 143)
ImageChoices ==
    {[src |-> <<"/", "a", ".", "p", "n", "g">>, alt |-> <<"l", "o", "g", "o">>],
     [src |-> <<"/", "b", ".", "p", "n", "g">>, alt |-> <<>>],
     [src |-> <<"/", "c", ".", "p", "n", "g">>, alt |-> <<" ">>],
     [src |-> <<"d", "a", "t", "a", ":", "x">>, alt |-> <<>>]}

ImageLists == UNION {[1..n -> ImageChoices] : n \in 0..MaxImages}

\* lengths on both sides of the two windows [30, 60] and [120, 160]
TitleLengths == {0, 10, 29, 30, 60, 61}

DescriptionLengths == {0, 119, 120, 160, 161}

WordCounts == {0, ContentWords, ContentWords + 1}

PriorityInit ==
    /\ SchedInit
    /\ links = <<>>
    /\ fate = <<>>
    /\ page \in {[origin |-> SiteOrigin, anchors |-> <<>>,
                  title |-> Text(t, 0), metaDescription |-> Text(d, 1),
                  h1 |-> h, images |-> imgs, wordCount |-> w] :
                    t \in TitleLengths, d \in DescriptionLengths,
                    h \in {<<>>, <<Text(5, 2)>>}, imgs \in ImageLists,
                    w \in WordCounts}

PrioritySpec == PriorityInit /\ [][PageNext]_vars

\* the h1 elements of a document: none, one of every length, or a blank one
\* followed by a short one
H1Lists ==
    {<<>>, << <<" ", " ">>, Text(5, 2) >>} \cup {<<Text(n, 2)>> : n \in 1..MaxH1Len}

TitleInit ==
    /\ SchedInit
    /\ links = <<>>
    /\ fate = <<>>
    /\ page \in {[BlankPage EXCEPT !.origin = SiteOrigin, !.title = Text(t, 0),
                                   !.h1 = h] :
                    t \in 0..MaxTitleLen, h \in H1Lists}

TitleSpec == TitleInit /\ [][PageNext]_vars

\* texts a description is built from: none, a short one, and those around the
\* length at which the built description passes 160 characters
BaseLengths == {0, 5} \cup ((MaxBaseLen - 3)..MaxBaseLen)

DescriptionInit ==
    /\ SchedInit
    /\ links = <<>>
    /\ fate = <<>>
    /\ page \in {[BlankPage EXCEPT !.origin = SiteOrigin,
                                   !.metaDescription = Text(d, 1),
                                   !.title = Text(t, 0),
                                   !.h1 = IF h = 0 THEN <<>> ELSE <<Text(h, 2)>>] :
                    d \in 0..MaxDescLen, t \in {0, 40, MaxBaseLen},
                    h \in BaseLengths}

DescriptionSpec == DescriptionInit /\ [][PageNext]_vars

\* documents with an image whose file name has every length, with an
\* extension, without one, or with nothing after the last slash; beside it a
\* data: image and a second image
AltInit ==
    /\ SchedInit
    /\ links = <<>>
    /\ fate = <<>>
    /\ page \in {[BlankPage EXCEPT
                     !.origin = SiteOrigin,
                     !.title = Text(t, 0),
                     !.images =
                        << [src |-> <<"/", "i", "/">>
                                      \o [i \in 1..n |-> <<"A", "-", "b", "_">>[(i % 4) + 1]]
                                      \o ending,
                            alt |-> <<>>],
                           [src |-> <<"d", "a", "t", "a", ":", "x">>, alt |-> <<>>],
                           [src |-> <<"/", "B", ".", "a", ".", "b">>, alt |-> <<"a">>] >>] :
                    t \in {0, 10, MaxTitleLen}, n \in 0..MaxNameLen,
                    ending \in {<<>>, <<".", "p", "n", "g">>, <<"/">>}}

AltSpec == AltInit /\ [][PageNext]_vars

\* ---- a crawl whose visits analyse the document they find -----------------
\* the documents the pages of the site serve
Documents ==
    {[BlankPage EXCEPT !.origin = SiteOrigin, !.title = Text(t, 0),
                       !.wordCount = w] :
        t \in {10, 40}, w \in {0, ContentWords + 1}}

\* lines 130-199: the visit's document is evaluated, its recommendations are
\* generated and the page is recorded; a failed visit analyses nothing.
\* pageData.seen keeps every (page data, recommendation) pair produced so far.
VisitAnalysed(doc) ==
    /\ VisitRecorded
    /\ IF fate[Top(stack).url] \in {"visit", "visitClose"}
       THEN UNCHANGED <<page, pageData>>
       ELSE LET pd == ExtractPageData(doc)
                rec == generateRecommendations(pd)
                seen == IF pageData.done THEN pageData.seen ELSE {}
            IN  /\ page' = doc
                /\ pageData' = [done |-> TRUE, data |-> pd, recommendations |-> rec,
                                images |-> RecordImages(pd),
                                seen |-> seen \cup {[data |-> pd, recommendations |-> rec]},
                                again |-> \E h \in seen : h.data = pd]

RecommendInit ==
    /\ SchedInit
    /\ links = Tree(2)
    /\ fate \in FatesOver({"ok", "visit"})
    /\ page = BlankPage

RecommendNext ==
    \/ CrawlStart
    \/ \E ok \in BOOLEAN : UpdScanningDone(ok)
    \/ \E ok \in BOOLEAN : CrawlLaunchDone(ok)
    \/ NewPageDone
    \/ \E doc \in Documents : VisitAnalysed(doc)
    \/ \E ok \in BOOLEAN : FlushDone(ok)
    \/ PageCloseDone
    \/ \E ok \in BOOLEAN : CrawlUpdCompletedDone(ok)
    \/ \E ok \in BOOLEAN : CrawlUpdFailedDone(ok)
    \/ \E ok \in BOOLEAN : CloseDone(ok)
    \/ DelayDone

RecommendSpec == RecommendInit /\ [][RecommendNext]_vars

AppSpec == Init /\ [][AppNext]_vars

\* The service with its request validation, a reliable session store and a
\* browser that closes
RequestNext ==
    \/ \E k \in UrlKinds, c \in ColorKinds, insertOk \in BOOLEAN :
          PostScanStart(k, c, insertOk)
    \/ UpdScanningDone(TRUE)
    \/ \E ok \in BOOLEAN : LaunchDone(ok)
    \/ \E ok \in BOOLEAN : ScanPageDone(ok)
    \/ UpdCompletedDone(TRUE)
    \/ UpdFailedDone(TRUE)
    \/ CloseDone(TRUE)

RequestSpec == Init /\ [][RequestNext]_vars

\* A crawl in which nothing fails but page visits: the browser launches and
\* closes, pages open and close, and the final write reaches the store.
VisitFaultInit ==
    /\ SchedInit
    /\ links \in Sites
    /\ fate \in FatesOver({"ok", "visit"})
    /\ page = BlankPage

VisitFaultStep ==
    \/ \E ok \in BOOLEAN : UpdScanningDone(ok)
    \/ CrawlLaunchDone(TRUE)
    \/ NewPageDone
    \/ VisitDone
    \/ \E ok \in BOOLEAN : FlushDone(ok)
    \/ PageCloseDone
    \/ CrawlUpdCompletedDone(TRUE)
    \/ CloseDone(TRUE)

VisitFaultNext ==
    \/ CrawlStart
    \/ VisitFaultStep

VisitFaultSpec == VisitFaultInit /\ [][VisitFaultNext]_vars /\ WF_vars(VisitFaultStep)

CrawlTypeOK ==
    /\ visited \subseteq Urls
    /\ \A i \in 1..Len(stack) :
          /\ stack[i].url \in visited
          /\ stack[i].depth \in 0..MaxDepth
          /\ stack[i].pc \in {"newPage", "visit", "flush", "child", "close"}
          /\ (stack[i].pc = "child") <=> (i < Len(stack))
    /\ (stack # <<>>) => (spc = "scanPage")
    /\ pagesProcessed \in 0..MaxPages
    /\ scanData.pagesProcessed \in {0, pagesProcessed}
    /\ Len(scanData.pages) = scanData.pagesProcessed

\* ==== properties ============================================================
\* a job of the table before the step, looked up in the table after it
Kept(id) == id \in Ids(queue) /\ id \in Ids(queue')

\* the step marks job id 'processing'
Started(id) ==
    /\ id \in Ids(queue')
    /\ JobOf(queue', id).status = "processing"
    /\ (id \in Ids(queue) => JobOf(queue, id).status # "processing")

\* C1: single-flight -- in every reachable state at most one job has status
\* 'processing', so getQueueStats().processing is 0 or 1.
C1_SingleFlight == getQueueStats.processing \in {0, 1}

\* a job is being processed while another one waits
C1_Witness ==
    /\ getQueueStats.processing = 1
    /\ getQueueStats.pending >= 1
    /\ spc = "scanPage"

\* C2: for every job, attempts starts at 0, never decreases and never
\* exceeds 3, and the job is 'failed' if and only if attempts equals 3.
C2_AttemptsBounded ==
    /\ [](\A i \in 1..Len(queue) :
            /\ queue[i].attempts \in 0..3
            /\ (queue[i].status = "failed") <=> (queue[i].attempts = 3))
    /\ [][\A i \in 1..Len(queue') :
            IF queue'[i].id \in Ids(queue)
            THEN queue'[i].attempts >= JobOf(queue, queue'[i].id).attempts
            ELSE queue'[i].attempts = 0]_vars

\* a job has failed for good after three attempts, another one has been retried
C2_Witness ==
    /\ \E i \in 1..Len(queue) : queue[i].status = "failed" /\ queue[i].attempts = 3
    /\ \E i \in 1..Len(queue) : queue[i].status = "processing" /\ queue[i].attempts = 2

\* C3: whenever the loop picks a job, it is the pending job with the earliest
\* createdAt, and among pending jobs with equal createdAt the one added first:
\* every job still pending after the pick is younger, or as old and added later.
C3_OldestPendingFirst ==
    [][\A i \in 1..Len(queue') :
          Started(queue'[i].id) =>
             \A k \in 1..Len(queue') :
                queue'[k].status = "pending" =>
                   \/ queue'[k].createdAt > queue'[i].createdAt
                   \/ (queue'[k].createdAt = queue'[i].createdAt /\ k > i)]_vars

\* the loop has just picked (after a retry delay) between two pending jobs
\* of different age: the other job was added before the delay ended
C3_Witness ==
    /\ lpc = "exec" /\ spc = "updScanning"
    /\ \E i, k \in 1..Len(queue) :
          /\ queue[i].status = "processing" /\ queue[i].attempts >= 1
          /\ queue[k].status = "pending"
          /\ queue[i].createdAt < queue[k].createdAt
          /\ queue[k].createdAt < now

\* C4: a job added while an earlier job is pending or processing stays
\* 'pending' until that earlier job is 'completed' or 'failed', across all of
\* its retries and retry delays: a job that has left 'pending' has only
\* finished jobs before it in the table.
C4_SecondWaitsForFirst ==
    \A i, k \in 1..Len(queue) :
        (i < k /\ queue[k].status # "pending") => IsTerminal(queue[i].status)

\* the second job is counted as pending during the second retry delay of the first
C4_Witness ==
    /\ lpc = "delay"
    /\ Len(queue) >= 2
    /\ queue[1].status = "pending" /\ queue[1].attempts = 2
    /\ queue[2].status = "pending"
    /\ getQueueStats.pending = 2

\* C5: a job put back to 'pending' keeps its createdAt, and the job the loop
\* starts when the retry delay is over is that same job.
C5_RetryKeepsPriority ==
    [][/\ \A i \in 1..Len(queue') :
             Kept(queue'[i].id) =>
                queue'[i].createdAt = JobOf(queue, queue'[i].id).createdAt
       /\ (lpc = "delay" /\ lpc' # "delay") =>
             /\ lpc' = "exec"
             /\ cur' = cur
             /\ JobOf(queue', cur).status = "processing"]_vars

\* the retried job runs again although a job submitted after it was waiting
\* during the delay
C5_Witness ==
    /\ lpc = "exec"
    /\ JobOf(queue, cur).attempts = 2
    /\ \E k \in 1..Len(queue) :
          /\ queue[k].status = "pending"
          /\ queue[k].createdAt > JobOf(queue, cur).createdAt
          /\ queue[k].createdAt < now

\* the step ends an invocation of scanWebsite and runs the continuation of
\* processQueue
AttemptEnds ==
    /\ lpc = "exec"
    /\ spc \in {"updCompleted", "updFailed", "closing"}
    /\ spc' \in {"none", "updScanning"}

\* C6: when a crawl ends with a job-level error (the browser could not be
\* launched, or an exception escaped the traversal: the catch block of
\* scanWebsite ran), the scheduler increments the job's attempts and puts the
\* job back to 'pending' for a retry, or marks it 'failed' at the third attempt.
C6_JobLevelErrorRetried ==
    [][(AttemptEnds /\ caught) =>
          /\ JobOf(queue', cur).attempts = JobOf(queue, cur).attempts + 1
          /\ JobOf(queue', cur).status =
                IF JobOf(queue, cur).attempts + 1 < 3 THEN "pending" ELSE "failed"]_vars

\* C7: whenever a job has exhausted its retries and is 'failed', the session
\* record of its session has status 'failed'.
C7_FailedJobHasFailedSession ==
    \A i \in 1..Len(queue) :
        queue[i].status = "failed" => session[queue[i].sessionId] = "failed"

\* C8: a successful attempt leaves attempts unchanged and a failed attempt
\* adds exactly one, so a job that fails k < 3 times and then succeeds is
\* 'completed' with attempts = k.
C8_SuccessKeepsAttempts ==
    [][\A i \in 1..Len(queue') :
          (Kept(queue'[i].id) /\ JobOf(queue, queue'[i].id).status = "processing") =>
             /\ queue'[i].status = "completed" =>
                   queue'[i].attempts = JobOf(queue, queue'[i].id).attempts
             /\ queue'[i].status \in {"pending", "failed"} =>
                   queue'[i].attempts = JobOf(queue, queue'[i].id).attempts + 1]_vars

\* two failed attempts, then a success: 'completed' with attempts = 2
C8_Witness ==
    \E i \in 1..Len(queue) : queue[i].status = "completed" /\ queue[i].attempts = 2

\* C9: provided every crawl attempt terminates, every job ever added
\* eventually is 'completed' or 'failed'.
C9_EveryJobSettles ==
    \A id \in 1..MaxJobs :
        (id \in Ids(queue)) ~> (id \in Ids(queue) /\ IsTerminal(JobOf(queue, id).status))

\* the second job was added before the first one failed for good (while the
\* loop was busy with it or in one of its retry delays) and has completed
C9_Witness ==
    /\ {1, 2} \subseteq Ids(queue)
    /\ JobOf(queue, 1).status = "failed"
    /\ JobOf(queue, 2).status = "completed"
    /\ JobOf(queue, 2).createdAt < 2 * RetryDelayMs

\* C10: once a job is 'completed' or 'failed', its status and attempts never
\* change again; it can only be removed from the job table.
C10_TerminalIsPermanent ==
    [][\A i \in 1..Len(queue) :
          (IsTerminal(queue[i].status) /\ queue[i].id \in Ids(queue')) =>
             /\ JobOf(queue', queue[i].id).status = queue[i].status
             /\ JobOf(queue', queue[i].id).attempts = queue[i].attempts]_vars

\* the loop is running the next job while a job that failed for good sits
\* in the table
C10_Witness ==
    /\ \E i \in 1..Len(queue) : queue[i].status = "failed"
    /\ \E i \in 1..Len(queue) : queue[i].status = "processing"
    /\ spc = "closing"

\* C11: once a session record is 'completed' or 'failed', no later write of
\* the crawler or the scheduler (a retry included) changes its status.
C11_SessionTerminalIsPermanent ==
    [][\A s \in 1..Len(session) :
          session[s] \in {"completed", "failed"} => session'[s] = session[s]]_vars

\* C12: cleanup() removes only jobs that are 'completed' or 'failed' and
\* older than one hour, never a 'pending' or 'processing' job; right after it
\* a second cleanup() has nothing to remove; and it leaves the loop, the
\* remaining jobs and the order of the jobs still to run as they were.
C12_CleanupOnlyStaleTerminal ==
    [][cleanup =>
          /\ \A i \in 1..Len(queue) :
                queue[i].id \notin Ids(queue') =>
                   /\ queue[i].status \in {"completed", "failed"}
                   /\ now - queue[i].createdAt > 3600000
          /\ \A k \in 1..Len(queue') :
                /\ queue'[k].id \in Ids(queue)
                /\ queue'[k] = JobOf(queue, queue'[k].id)
                /\ ~(/\ queue'[k].status \in {"completed", "failed"}
                     /\ now' - queue'[k].createdAt > 3600000)
          /\ SelectSeq(queue', LAMBDA j : j.status \in {"pending", "processing"})
                = SelectSeq(queue, LAMBDA j : j.status \in {"pending", "processing"})
          /\ UNCHANGED <<processing, lpc, cur, spc, session>>]_vars

\* cleanup() has removed a finished job: its eviction timer is still pending
C12_Witness ==
    \E t \in timers :
       /\ t.id \notin Ids(queue)
       /\ t.due > now
       /\ now > 3600000

\* C13: a job leaves the job table no earlier than one hour after it became
\* 'completed' or 'failed' (its eviction timer was set at that moment for one
\* hour later), whether the timer or cleanup() removes it.
C13_RemovedAfterRetention ==
    [][\A i \in 1..Len(queue) :
          queue[i].id \notin Ids(queue') =>
             \E t \in timers : t.id = queue[i].id /\ now' >= t.due]_vars


\* ---- the crawl aggregate ----------------------------------------------------
NoDuplicates(seq) == \A i, j \in 1..Len(seq) : seq[i] = seq[j] => i = j

\* the URLs of the aggregate's pages and errors lists, one after the other
Reported(sd) == sd.pages \o sd.errors

\* C14: within one crawl no URL appears more than once across the
\* aggregate's pages and errors lists combined, whichever operations fail
\* (navigation, extraction, opening or closing a page).
C14_NoUrlTwice == NoDuplicates(Reported(scanData))

\* the distinct URLs of a list
UrlsOf(seq) == {seq[i] : i \in 1..Len(seq)}

\* C15: at every point of every crawl pagesProcessed + pagesSkipped is at most
\* the page ceiling of 50, and so is the number of distinct URLs in pages plus
\* errors, also when page visits fail.
C15_WithinCeiling ==
    /\ scanData.pagesProcessed + scanData.pagesSkipped <= 50
    /\ Cardinality(UrlsOf(Reported(scanData))) <= 50

\* some visits failed and the crawl still handled twenty pages
C15_Witness ==
    /\ scanData.pagesSkipped >= 1
    /\ scanData.pagesProcessed + scanData.pagesSkipped >= 20

VisitFails ==
    /\ InScanPage("visit")
    /\ fate[Top(stack).url] \in {"visit", "visitClose"}

\* the invocation of a page whose visit failed returns in this step
FailedVisitReturns ==
    /\ InScanPage("close")
    /\ fate[Top(stack).url] = "visit"

\* the links the caller of the top invocation has still to visit
StillToVisit == SelectSeq(stack[Len(stack) - 1].rest, LAMBDA u : u \notin visited)

\* C17: when the visit of a page fails, pagesSkipped grows by exactly 1, one
\* entry with the page's URL is appended to errors, pages and pagesProcessed
\* stay as they are, and the traversal goes on with the next link still to be
\* visited (the crawl is not aborted).
C17_FailedVisitIsSkipped ==
    [][/\ VisitFails =>
             /\ scanData'.pagesSkipped = scanData.pagesSkipped + 1
             /\ scanData'.errors = Append(scanData.errors, Top(stack).url)
             /\ scanData'.pages = scanData.pages
             /\ scanData'.pagesProcessed = scanData.pagesProcessed
             /\ pagesProcessed' = pagesProcessed
             /\ spc' = "scanPage"
       /\ FailedVisitReturns =>
             /\ scanData'.pagesSkipped = scanData.pagesSkipped
             /\ scanData'.errors = scanData.errors
             /\ caught' = caught
             /\ IF Len(stack) = 1
                THEN spc' = "updCompleted"
                ELSE /\ spc' = "scanPage"
                     /\ IF StillToVisit = <<>>
                        THEN /\ Len(stack') = Len(stack) - 1
                             /\ Top(stack').pc = "close"
                        ELSE /\ Len(stack') = Len(stack)
                             /\ Top(stack').url = Head(StillToVisit)
                             /\ Top(stack').depth = Top(stack).depth
                             /\ Top(stack').pc = "newPage"]_vars

\* a visit failed and the traversal is opening the next link of the same page
C17_Witness ==
    /\ Len(stack) = 2
    /\ stack[2].pc = "newPage"
    /\ scanData.errors # <<>>
    /\ scanData.pagesSkipped = Len(scanData.errors)
    /\ \E k \in 1..Len(links[SeedUrl]) :
          /\ links[SeedUrl][k] = stack[2].url
          /\ k > 1
          /\ links[SeedUrl][k - 1] = scanData.errors[Len(scanData.errors)]
          /\ fate[links[SeedUrl][k - 1]] = "visit"

\* the job and the session of the single crawl are both 'completed'
CrawlCompleted ==
    /\ queue # <<>>
    /\ queue[1].status = "completed"
    /\ session[1] = "completed"

\* C18: per-page errors never become a job-level failure: whichever page
\* visits fail, the seed's included, the crawl ends with the session
\* persisted as 'completed' and the job 'completed' with attempts unchanged.
C18_PageErrorsStayLocal ==
    /\ [](\A i \in 1..Len(queue) : queue[i].attempts = 0 /\ queue[i].status # "failed")
    /\ [](\A s \in 1..Len(session) : session[s] # "failed")
    /\ (queue # <<>>) ~> CrawlCompleted

\* a crawl with failed visits has ended completed
C18_Witness ==
    /\ CrawlCompleted
    /\ Len(scanData.errors) >= 2
    /\ Len(scanData.pages) >= 1
    /\ queue[1].attempts = 0

\* C19: when the traversal has finished, the aggregate persisted with status
\* 'completed' has completedAt set and totalPages = pagesProcessed +
\* pagesSkipped, and no write to the session record follows it in that crawl.
C19_FinalWrite ==
    [][/\ (spc = "updCompleted" /\ spc' # "updCompleted") =>
             \/ UNCHANGED <<session, scanStore>>
             \/ /\ session' = [session EXCEPT ![CurSession] = "completed"]
                /\ scanStore'[CurSession].data = scanData
                /\ scanStore'[CurSession].data.completedAt
                /\ scanStore'[CurSession].data.totalPages =
                      scanStore'[CurSession].data.pagesProcessed
                         + scanStore'[CurSession].data.pagesSkipped
                /\ ~scanStore'[CurSession].error
       /\ spc = "closing" => UNCHANGED <<session, scanStore>>]_vars

\* the final aggregate of a crawl with processed and skipped pages is stored
C19_Witness ==
    /\ spc = "closing"
    /\ session[1] = "completed"
    /\ scanStore[1].data.completedAt
    /\ scanStore[1].data.pagesSkipped > 0
    /\ scanStore[1].data.pagesProcessed > 0
    /\ scanStore[1].data.totalPages > scanStore[1].data.pagesProcessed

\* a progress write is awaited
FlushPending == stack # <<>> /\ Top(stack).pc = "flush"

C21_NoBrowserAtStart ==
    (lpc # "exec" \/ spc = "updScanning") => ~browser

\* the loop is suspended in a write to the session store
WritePoint ==
    /\ lpc = "exec"
    /\ \/ spc \in {"updScanning", "updCompleted", "updFailed"}
       \/ (spc = "scanPage" /\ FlushPending)

\* C22: session-store write failures are non-fatal: whether a write takes
\* effect or is lost, the step changes nothing but the store, the traversal
\* goes on the same way, no exception is raised, no attempt is counted and no
\* job is re-queued or becomes 'failed'.
C22_WriteFailureNonFatal ==
    [][WritePoint =>
          /\ scanData' = scanData
          /\ pagesProcessed' = pagesProcessed
          /\ caught' => caught
          /\ Len(queue') = Len(queue)
          /\ \A i \in 1..Len(queue) :
                /\ queue'[i].attempts = queue[i].attempts
                /\ queue'[i].status \in {queue[i].status, "completed"}
                /\ queue'[i].status # "failed"
          /\ spc = "updScanning" => spc' = "launch"
          /\ FlushPending =>
                /\ spc' = "scanPage"
                /\ stack' = Expand(stack, visited, pagesProcessed).stack
                /\ visited' = Expand(stack, visited, pagesProcessed).visited
          /\ (spc \in {"updCompleted", "updFailed"} /\ browser) => spc' = "closing"]_vars

\* every write of a crawl of six pages was lost and the job is completed
C22_Witness ==
    /\ queue # <<>>
    /\ queue[1].status = "completed"
    /\ queue[1].attempts = 0
    /\ Len(scanData.pages) >= 6
    /\ scanData.completedAt
    /\ session[1] = "pending"
    /\ scanStore[1] = NoData

\* C23: when a crawl raises an exception outside the per-page handling (the
\* browser cannot be launched, an exception leaves the traversal), the session
\* record is written with status 'failed' and a minimal aggregate: pages and
\* errors empty, totalPages, pagesProcessed and pagesSkipped all 0.
C23_FailureRecord ==
    [][/\ (caught' /\ ~caught) => spc' = "updFailed"
       /\ (lpc = "exec" /\ spc = "updFailed") =>
             /\ caught
             /\ \/ UNCHANGED <<session, scanStore>>
                \/ /\ session' = [session EXCEPT ![CurSession] = "failed"]
                   /\ scanStore'[CurSession].error
                   /\ scanStore'[CurSession].data.pages = <<>>
                   /\ scanStore'[CurSession].data.errors = <<>>
                   /\ scanStore'[CurSession].data.totalPages = 0
                   /\ scanStore'[CurSession].data.pagesProcessed = 0
                   /\ scanStore'[CurSession].data.pagesSkipped = 0
                   /\ \A s \in 1..MaxJobs :
                         s # CurSession => scanStore'[s] = scanStore[s]]_vars

\* a crawl that had recorded pages failed, and the stored record is minimal
C23_Witness ==
    /\ spc = "closing"
    /\ session[1] = "failed"
    /\ scanStore[1].error
    /\ scanStore[1].data.pages = <<>>
    /\ Len(scanData.pages) >= 1

\* ---- the HTTP endpoints --------------------------------------------------------
\* the URLs the rule names: missing, malformed, not http/https, or on a
\* blocked private/loopback host
BadUrls == {"missing", "malformed", "noScheme", "ftp", "loopbackName", "privateIp"}

C25_ResultsOnlyWhenCompleted ==
    \A s \in 1..Len(session) :
       /\ getResults(s).code = 200 <=> session[s] = "completed"
       /\ session[s] # "completed" => getResults(s).code = 400 /\ ~getResults(s).served
       /\ getResults(s).served => ~getResults(s).scanData.lastUpdate

\* ---- extraction and recommendations ------------------------------------------
\* C26: for every page the extracted internalLinks list has at most 10
\* entries, no duplicate URL, and only URLs whose origin equals the origin of
\* the crawled site; other origins and unparsable hrefs are left out.
C26_InternalLinks ==
    pageData.done =>
       LET l == pageData.data.internalLinks
       IN  /\ Len(l) <= 10
           /\ NoDuplicates([i \in 1..Len(l) |-> Href(l[i])])
           /\ \A i \in 1..Len(l) : l[i].origin = page.origin


\* the score as the specification words it, over the extracted page data
Outside(n, lo, hi) == n < lo \/ n > hi

NoAlt(d) == Cardinality({i \in 1..Len(d.images) : d.images[i].currentAlt = <<>>})

ClaimedScore(d) ==
    (IF Outside(Len(d.title), 30, 60) THEN 2 ELSE 0)
    + (IF Outside(Len(d.metaDescription), 120, 160) THEN 2 ELSE 0)
    + (IF d.wordCount > 50 THEN 0 ELSE 3)
    + (IF d.headings.h1 = <<>> THEN 1 ELSE 0)
    + (IF NoAlt(d) > 2 THEN 2 ELSE NoAlt(d))

C27_Example(d) ==
    /\ Len(d.title) = 10
    /\ d.metaDescription = <<>>
    /\ Len(d.headings.h1) = 1
    /\ NoAlt(d) = 3

C28_TitleFromH1 ==
    (pageData.done /\ Len(pageData.data.title) < 30) =>
       LET h1 == pageData.data.headings.h1
       IN  pageData.recommendations.title =
              IF h1 = <<>> THEN UntitledTitle
              ELSE SubSeq(h1[1], 1, Min(50, Len(h1[1]))) \o BrandSuffix

\* C29: a title of 30 to 60 characters is passed through unchanged, and a
\* longer one becomes its first 57 characters followed by a 3-character
\* ellipsis, exactly 60 characters.
C29_TitleWindow ==
    pageData.done =>
       LET title == pageData.data.title
           optimized == pageData.recommendations.title
       IN  /\ (Len(title) >= 30 /\ Len(title) <= 60) => optimized = title
           /\ Len(title) > 60 =>
                 /\ optimized = SubSeq(title, 1, 57) \o <<".", ".", ".">>
                 /\ Len(optimized) = 60

C29_Witness ==
    /\ pageData.done
    /\ Len(pageData.data.title) > 60
    /\ Len(pageData.recommendations.title) = 60
    /\ pageData.recommendations.title # pageData.data.title


\* a text cut to 157 characters and closed by a 3-character ellipsis
Cut157(str) == SubSeq(str, 1, 157) \o <<".", ".", ".">>

C31_AltTextBounded ==
    pageData.done =>
       /\ Len(pageData.images) = Len(pageData.data.images)
       /\ \A i \in 1..Len(pageData.images) :
             /\ pageData.images[i].src = pageData.data.images[i].src
             /\ "recommendedAlt" \in DOMAIN pageData.images[i]
             /\ Len(pageData.images[i].recommendedAlt) <= 100

C31_Witness ==
    /\ pageData.done
    /\ Len(pageData.images) = 2
    /\ Len(pageData.images[1].src) > 100
    /\ Len(pageData.images[1].recommendedAlt) = 100
    /\ pageData.images[2].recommendedAlt = <<"b", " ", "o", "n", " ">> \o pageData.data.title
    /\ pageData.data.title # <<>>


C33_AddNonBlocking ==
    /\ [](nextId <= MaxJobs => ENABLED StartScan)
    /\ [][nextId' # nextId =>
            /\ Len(queue') = Len(queue) + 1
            /\ \A i \in 1..Len(queue) : queue'[i] = queue[i]
            /\ LET job == queue'[Len(queue')]
               IN  /\ job.id \notin Ids(queue)
                   /\ job.attempts = 0
                   /\ job.status = IF processing THEN "pending" ELSE "processing"
                   /\ ~processing => (processing' /\ lpc' = "exec" /\ cur' = job.id)
                   /\ processing => UNCHANGED <<processing, lpc, cur, spc, delayDue>>]_vars

C33_Witness ==
    /\ Len(queue) = 2
    /\ queue[1].status = "processing"
    /\ cur = queue[1].id
    /\ queue[2].status = "pending"
    /\ queue[2].attempts = 0
    /\ queue[2].createdAt > queue[1].createdAt
    /\ lpc = "exec"

\* C34: no lost wake-up: whenever some job is 'pending' the processing flag
\* is set (a loop is running or waiting in a retry delay); the flag is
\* released only in a state with no pending job.
C34_NoLostWakeup ==
    /\ (\E i \in 1..Len(queue) : queue[i].status = "pending") => processing
    /\ processing <=> lpc \in {"exec", "delay"}

C34_Witness ==
    /\ lpc = "delay"
    /\ Len(queue) = 2
    /\ \A i \in 1..2 : queue[i].status = "pending"
    /\ queue[1].attempts > 0
    /\ processing

\* C36: whenever the scheduler marks a job 'completed', and session-store
\* writes succeed, the session record of that job has status 'completed'; a
\* job is never 'completed' while its session is 'failed'.
C36_CompletedJobHasCompletedSession ==
    \A i \in 1..Len(queue) :
       queue[i].status = "completed" => session[queue[i].sessionId] = "completed"


\* C35: every aggregate written to the session store, by a progress flush,
\* the final write or the failure write, is self-consistent: pagesProcessed
\* equals the number of entries in pages and pagesSkipped equals the number
\* of entries in errors.
C35_StoredAggregateConsistent ==
    \A s \in DOMAIN scanStore :
       /\ scanStore[s].data.pagesProcessed = Len(scanStore[s].data.pages)
       /\ scanStore[s].data.pagesSkipped = Len(scanStore[s].data.errors)

\* a progress flush has stored processed and skipped pages
C35_Witness ==
    /\ scanStore[1].lastUpdate
    /\ Len(scanStore[1].data.pages) >= 2 * FlushEvery
    /\ Len(scanStore[1].data.errors) > 1
    /\ stack # <<>>


C39_SessionSettles ==
    \A s \in 1..MaxJobs :
        (s <= Len(session) /\ session[s] \in {"pending", "scanning"})
           ~> (s <= Len(session) /\ session[s] \in {"completed", "failed"})

\* the session of a request that waited behind a retried job has settled
C39_Witness ==
    /\ Len(session) = 2
    /\ session[2] \in {"completed", "failed"}
    /\ session[1] \in {"completed", "failed"}
    /\ {1, 2} \subseteq Ids(queue)
    /\ JobOf(queue, 1).attempts > 0
    /\ JobOf(queue, 2).createdAt < JobOf(queue, 1).createdAt + RetryDelayMs
    /\ lpc = "idle"


\* ---- the frontend -------------------------------------------------------------
\* C40: the app moves from 'scanning' to 'results' only after a status poll
\* for the current session reported 'completed' and the results were
\* fetched, and once the app has left 'scanning' (to results, error, or back
\* to the form) no response to a poll that was issued earlier changes the app
\* state, the error text or the displayed scan data.
C40_StalePollsIgnored ==
    [][/\ (app.appState = "scanning" /\ app'.appState = "results") =>
             \E p \in app.polls :
                /\ p.phase = "results"
                /\ p.sid = app.sessionId
                /\ p \notin app'.polls
                /\ app'.scanData = app.sessionId
       /\ (app.appState # "scanning" /\ app'.polls # app.polls) =>
             /\ app'.appState = app.appState
             /\ app'.error = app.error
             /\ app'.scanData = app.scanData]_vars

============================================================================
